---- MODULE Spec2Model ----
(***************************************************************************)
(* datadog-query-linter (main.go): the query analysis (parseQuery,         *)
(* extractInnerQuery, isComplexQuery, extractAllMetrics and its two        *)
(* passes), extractQuery, fetchMetric and the loop of main over the input  *)
(* files.  A Go string is modelled as a sequence of one-character          *)
(* strings; offsets (StartPos, EndPos, loop indices) are Go's 0-based      *)
(* byte offsets, so query[a:b] is SubSeq(query, a + 1, b).                  *)
(***************************************************************************)
EXTENDS Integers, Sequences, FiniteSets, TLC

(***************************************************************************)
(* String helpers of the Go standard library, as the code uses them.       *)
(***************************************************************************)

\* the wrapper name the regular expressions and strings.HasPrefix spell out
DefaultZeroName == <<"d", "e", "f", "a", "u", "l", "t", "_", "z", "e", "r", "o">>

\* white space of strings.TrimSpace and of \s (the characters TLA+ can write)
SpaceChars == {" ", "\t", "\n", "\r", "\f"}

\* s[a:b] with 0-based a, b
Slice(s, a, b) == SubSeq(s, a + 1, b)

\* strings.HasPrefix(s[i:], p)
HasPrefixAt(s, i, p) ==
    i + Len(p) <= Len(s) /\ \A k \in 1..Len(p) : s[i + k] = p[k]

\* strings.HasPrefix
HasPrefix(s, p) == HasPrefixAt(s, 0, p)

\* least element of a non-empty set of offsets
Least(S) == CHOOSE j \in S : \A k \in S : j <= k

\* end of the longest run of characters of class that starts at offset i
RunEnd(s, i, class) ==
    Least({j \in i..Len(s) : j = Len(s) \/ s[j + 1] \notin class})

\* start of the longest run of characters of class that ends at offset i
RunStart(s, i, class) ==
    Least({j \in 0..i : \A k \in (j + 1)..i : s[k] \in class})

\* strings.TrimSpace
TrimSpace(s) ==
    LET start == RunEnd(s, 0, SpaceChars)
    IN IF start = Len(s) THEN <<>>
       ELSE Slice(s, start, RunStart(s, Len(s), SpaceChars))

\* offset of the first character at or after i that \s does not match
SkipSpaces(s, i) == RunEnd(s, i, SpaceChars)

\* the offsets at which p occurs in s
Occurrences(s, p) == {j \in 0..(Len(s) - Len(p)) : HasPrefixAt(s, j, p)}

\* strings.Count(s[i:], p) given the occurrences of p: they are counted
\* without overlap, each search resuming after the end of the one found
RECURSIVE CountFrom(_, _, _)
CountFrom(hits, i, n) ==
    LET rest == {j \in hits : j >= i}
    IN IF rest = {} THEN 0 ELSE 1 + CountFrom(hits, Least(rest) + n, n)

\* strings.Count
Count(s, p) == CountFrom(Occurrences(s, p), 0, Len(p))

(***************************************************************************)
(* extractInnerQuery                                                       *)
(***************************************************************************)

\* end offset of a match of `default_zero\s*\(` that starts at offset i, or -1
WrapperOpenEnd(s, i) ==
    IF ~HasPrefixAt(s, i, DefaultZeroName) THEN -1
    ELSE LET j == SkipSpaces(s, i + Len(DefaultZeroName))
         IN IF j < Len(s) /\ s[j + 1] = "(" THEN j + 1 ELSE -1

\* the wrapper test by name prefix alone
MatchesWrapperName(s) == HasPrefix(s, DefaultZeroName)

\* `^default_zero\s*\(` matches s
MatchesWrapperPrefix(s) == WrapperOpenEnd(s, 0) # -1

\* FindStringSubmatch of `^default_zero\s*\((.+)\)$`: <<>> when there is no
\* match, else <<whole, capture>>.  `.` matches no "\n", `$` is the end of text.
InnerSubmatch(s) ==
    LET open == WrapperOpenEnd(s, 0)
    IN IF open = -1 \/ Len(s) < open + 2 \/ s[Len(s)] # ")" THEN <<>>
       ELSE LET capture == Slice(s, open, Len(s) - 1)
            IN IF \E k \in 1..Len(capture) : capture[k] = "\n"
               THEN <<>>
               ELSE <<s, capture>>

\* the loop of extractInnerQuery leaving after its first iteration
PeelOneLayer(trimmed, nesting) ==
    LET matches == InnerSubmatch(trimmed)
    IN IF Len(matches) # 2 THEN <<trimmed, nesting>>
       ELSE <<TrimSpace(matches[2]), nesting + 1>>

\* the loop of extractInnerQuery from the state (trimmed, nesting)
RECURSIVE PeelLayers(_, _)
PeelLayers(trimmed, nesting) ==
    LET matches == InnerSubmatch(trimmed)
    IN IF Len(matches) # 2 THEN <<trimmed, nesting>>
       ELSE LET inner == TrimSpace(matches[2])
            IN IF ~HasPrefix(inner, DefaultZeroName)
               THEN <<inner, nesting + 1>>
               ELSE PeelLayers(inner, nesting + 1)

\* extractInnerQuery entering its loop with the query as given
extractInnerQueryUntrimmed(query) == PeelLayers(query, 0)

\* extractInnerQuery(query) = <<inner query, nesting>>
extractInnerQuery(query) == PeelLayers(TrimSpace(query), 0)

(***************************************************************************)
(* isComplexQuery                                                          *)
(***************************************************************************)

OperatorChars == {"+", "-", "*", "/"}

\* the context test with its first alternative alone
OperatorContextUnspaced(query, i) ==
    /\ i > 0
    /\ i < Len(query) - 1
    /\ query[i] # " "
    /\ query[i + 2] # " "

\* the context test of the operator case at offset i
OperatorContext(query, i) ==
    /\ i > 0
    /\ i < Len(query) - 1
    /\ \/ (query[i] # " " /\ query[i + 2] # " ")
       \/ query[i + 1] \in OperatorChars

\* inBraces when the scanning loop reaches offset i: one up for every "{" and
\* one down for every "}" before it (it may go negative)
inBracesAt(query, i) ==
    Cardinality({k \in 1..i : query[k] = "{"})
        - Cardinality({k \in 1..i : query[k] = "}"})

\* the scanning loop returns true: it does at the first offset that holds an
\* operator character with inBraces zero and the context test passing
\* (inParens is counted by the code and never read)
OperatorScan(query) ==
    \E i \in 0..(Len(query) - 1) :
        /\ query[i + 1] \in OperatorChars
        /\ inBracesAt(query, i) = 0
        /\ OperatorContext(query, i)

metricPrefixes ==
    << <<"a", "v", "g", ":">>, <<"s", "u", "m", ":">>,
       <<"c", "o", "u", "n", "t", ":">>, <<"m", "i", "n", ":">>,
       <<"m", "a", "x", ":">>, <<"r", "a", "t", "e", ":">>,
       <<"g", "a", "u", "g", "e", ":">> >>

\* metricCount after the loop over metricPrefixes[k..]
RECURSIVE PrefixCountFrom(_, _)
PrefixCountFrom(query, k) ==
    IF k > Len(metricPrefixes) THEN 0
    ELSE Count(query, metricPrefixes[k]) + PrefixCountFrom(query, k + 1)

metricCount(query) == PrefixCountFrom(query, 1)

\* isComplexQuery asking for more than two prefixes
isComplexQueryOverTwo(query) ==
    OperatorScan(query) \/ metricCount(query) > 2

isComplexQuery(query) ==
    OperatorScan(query) \/ metricCount(query) > 1

(***************************************************************************)
(* extractAllMetrics and its two passes                                    *)
(***************************************************************************)

\* MetricInfo with the unwrapped text stored as the original one
MetricInfoUnwrapped(original, clean, hasDefaultZero, nesting, startPos, endPos) ==
    [OriginalMetric |-> clean, CleanMetric |-> clean,
     HasDefaultZero |-> hasDefaultZero, DefaultZeroNesting |-> nesting,
     StartPos |-> startPos, EndPos |-> endPos]

\* MetricInfo
MetricInfo(original, clean, hasDefaultZero, nesting, startPos, endPos) ==
    [OriginalMetric |-> original, CleanMetric |-> clean,
     HasDefaultZero |-> hasDefaultZero, DefaultZeroNesting |-> nesting,
     StartPos |-> startPos, EndPos |-> endPos]

\* the matches FindAllStringIndex(query, -1) returns for a pattern whose
\* match at offset j ends at ends[j] (DOMAIN ends: the offsets it matches
\* at): the leftmost match, then the leftmost one at or after its end, ...
RECURSIVE FindAllFrom(_, _)
FindAllFrom(ends, i) ==
    LET rest == {j \in DOMAIN ends : j >= i}
    IN IF rest = {} THEN <<>>
       ELSE << <<Least(rest), ends[Least(rest)]>> >>
            \o FindAllFrom(ends, ends[Least(rest)])

\* FindAllStringIndex(query, -1) of `default_zero\s*\(`
WrapperMatches(query) ==
    LET starts == {j \in 0..(Len(query) - 1) : WrapperOpenEnd(query, j) # -1}
    IN FindAllFrom([j \in starts |-> WrapperOpenEnd(query, j)], 0)

\* the parenthesis-matching loop stopping at the first ")"
FirstParenEnd(query, i, parenCount) ==
    LET closes == {j \in i..(Len(query) - 1) : query[j + 1] = ")"}
    IN IF closes = {} THEN -1 ELSE Least(closes) + 1

\* the parenthesis-matching loop from offset i with parenCount: endPos, or -1.
\* Only "(" and ")" change its state, so it is followed from one to the next.
RECURSIVE MatchingParenEnd(_, _, _)
MatchingParenEnd(query, i, parenCount) ==
    LET parens == {j \in i..(Len(query) - 1) : query[j + 1] \in {"(", ")"}}
        next == Least(parens)
    IN IF parens = {} THEN -1
       ELSE IF query[next + 1] = "("
            THEN MatchingParenEnd(query, next + 1, parenCount + 1)
       ELSE IF parenCount - 1 = 0 THEN next + 1
       ELSE MatchingParenEnd(query, next + 1, parenCount - 1)

\* marking the start of the metric alone as covered
MarkCoveredStart(coveredPositions, startPos, endPos) ==
    coveredPositions \cup {startPos}

\* coveredPositions after marking all positions within the metric
MarkCovered(coveredPositions, startPos, endPos) ==
    coveredPositions \cup (startPos..(endPos - 1))

\* the loop over matches[k..] with the metrics and coveredPositions so far
RECURSIVE DefaultZeroLoop(_, _, _, _, _)
DefaultZeroLoop(query, matches, k, metrics, coveredPositions) ==
    IF k > Len(matches) THEN metrics
    ELSE LET startPos == matches[k][1]
             openParenPos == matches[k][2] - 1
             endPos == MatchingParenEnd(query, openParenPos, 0)
         IN IF startPos \in coveredPositions
            THEN DefaultZeroLoop(query, matches, k + 1, metrics, coveredPositions)
            ELSE IF endPos # -1
            THEN LET fullMatch == Slice(query, startPos, endPos)
                     unwrapped == extractInnerQuery(fullMatch)
                     metric == MetricInfo(fullMatch, unwrapped[1], TRUE,
                                          unwrapped[2], startPos, endPos)
                 IN DefaultZeroLoop(query, matches, k + 1, Append(metrics, metric),
                                    MarkCovered(coveredPositions, startPos, endPos))
            ELSE DefaultZeroLoop(query, matches, k + 1, metrics, coveredPositions)

extractDefaultZeroMetrics(query) ==
    DefaultZeroLoop(query, WrapperMatches(query), 1, <<>>, {})

LowerChars ==
    {"a", "b", "c", "d", "e", "f", "g", "h", "i", "j", "k", "l", "m",
     "n", "o", "p", "q", "r", "s", "t", "u", "v", "w", "x", "y", "z"}

UpperChars ==
    {"A", "B", "C", "D", "E", "F", "G", "H", "I", "J", "K", "L", "M",
     "N", "O", "P", "Q", "R", "S", "T", "U", "V", "W", "X", "Y", "Z"}

DigitChars == {"0", "1", "2", "3", "4", "5", "6", "7", "8", "9"}

\* [a-zA-Z0-9._]
NameChars == LowerChars \cup UpperChars \cup DigitChars \cup {".", "_"}

\* [a-zA-Z0-9_()]
SuffixChars == LowerChars \cup UpperChars \cup DigitChars \cup {"_", "(", ")"}

\* `(avg|sum|count|min|max|rate|gauge):` at offset i: its end offset, or -1
RECURSIVE AggregationEnd(_, _, _)
AggregationEnd(s, i, k) ==
    IF k > Len(metricPrefixes) THEN -1
    ELSE IF HasPrefixAt(s, i, metricPrefixes[k]) THEN i + Len(metricPrefixes[k])
    ELSE AggregationEnd(s, i, k + 1)

\* `(\{[^}]*\})?` at offset i: the end of the group, i when it matches empty
FilterEnd(s, i) ==
    LET closes == {j \in (i + 1)..(Len(s) - 1) : s[j + 1] = "}"}
    IN IF i < Len(s) /\ s[i + 1] = "{" /\ closes # {}
       THEN Least(closes) + 1
       ELSE i

\* `(\.[a-zA-Z0-9_()]+)*` at offset i: the end of the last repetition
RECURSIVE SuffixEnd(_, _)
SuffixEnd(s, i) ==
    IF i + 1 < Len(s) /\ s[i + 1] = "." /\ s[i + 2] \in SuffixChars
    THEN SuffixEnd(s, RunEnd(s, i + 1, SuffixChars))
    ELSE i

\* metricPattern at offset i: the end offset of its match, or -1.  Every
\* quantifier is greedy and what follows it can match empty, so the first
\* match the engine finds is the one with each run taken whole.
MetricPatternEnd(s, i) ==
    LET p == AggregationEnd(s, i, 1)
        n == RunEnd(s, p, NameChars)
    IN IF p = -1 \/ n = p THEN -1 ELSE SuffixEnd(s, FilterEnd(s, n))

\* FindAllStringIndex(query, -1) of metricPattern
MetricMatches(query) ==
    LET starts == {j \in 0..(Len(query) - 1) : MetricPatternEnd(query, j) # -1}
    IN FindAllFrom([j \in starts |-> MetricPatternEnd(query, j)], 0)

\* coveredPositions holding the start of each existing metric alone
CoveredByStarts(existingMetrics) ==
    {existingMetrics[k].StartPos : k \in 1..Len(existingMetrics)}

\* coveredPositions built from existingMetrics
CoveredBy(existingMetrics) ==
    UNION {existingMetrics[k].StartPos..(existingMetrics[k].EndPos - 1) :
           k \in 1..Len(existingMetrics)}

\* the loop over matches[k..] of extractRemainingMetrics
RECURSIVE RemainingLoop(_, _, _, _)
RemainingLoop(query, matches, k, coveredPositions) ==
    IF k > Len(matches) THEN <<>>
    ELSE LET startPos == matches[k][1]
             endPos == matches[k][2]
             covered == \E i \in startPos..(endPos - 1) : i \in coveredPositions
             metricText == Slice(query, startPos, endPos)
             rest == RemainingLoop(query, matches, k + 1, coveredPositions)
         IN IF ~covered
            THEN <<MetricInfo(metricText, metricText, FALSE, 0, startPos, endPos)>>
                 \o rest
            ELSE rest

\* extractRemainingMetrics without the coverage test
extractRemainingMetricsUncovered(query, existingMetrics) ==
    RemainingLoop(query, MetricMatches(query), 1, {})

extractRemainingMetrics(query, existingMetrics) ==
    RemainingLoop(query, MetricMatches(query), 1, CoveredBy(existingMetrics))

\* extractAllMetrics appending the bare metrics first
extractAllMetricsBareFirst(query) ==
    LET defaultZeroMetrics == extractDefaultZeroMetrics(query)
    IN extractRemainingMetrics(query, defaultZeroMetrics) \o defaultZeroMetrics

extractAllMetrics(query) ==
    LET defaultZeroMetrics == extractDefaultZeroMetrics(query)
    IN defaultZeroMetrics \o extractRemainingMetrics(query, defaultZeroMetrics)

(***************************************************************************)
(* parseQuery                                                              *)
(***************************************************************************)

\* QueryAnalysis
QueryAnalysis(query, hasDefaultZero, innerQuery, nesting, metrics, isComplex) ==
    [OriginalQuery |-> query, HasDefaultZero |-> hasDefaultZero,
     InnerQuery |-> innerQuery, DefaultZeroNesting |-> nesting,
     Metrics |-> metrics, IsComplexQuery |-> isComplex]

\* the complex branch taking the legacy fields from the last metric
parseComplexLast(query) ==
    LET metrics == extractAllMetrics(query)
        last == metrics[Len(metrics)]
    IN IF Len(metrics) > 0
       THEN QueryAnalysis(query, last.HasDefaultZero, last.CleanMetric,
                          last.DefaultZeroNesting, metrics, TRUE)
       ELSE QueryAnalysis(query, FALSE, <<>>, 0, metrics, TRUE)

\* the branch of parseQuery for a complex query
parseComplex(query) ==
    LET metrics == extractAllMetrics(query)
    IN IF Len(metrics) > 0
       THEN QueryAnalysis(query, metrics[1].HasDefaultZero, metrics[1].CleanMetric,
                          metrics[1].DefaultZeroNesting, metrics, TRUE)
       ELSE QueryAnalysis(query, FALSE, <<>>, 0, metrics, TRUE)

\* the simple branch recording the trimmed query in its MetricInfo
parseSimpleTrimmed(query) ==
    LET trimmed == TrimSpace(query)
        unwrapped == extractInnerQuery(query)
    IN IF MatchesWrapperPrefix(trimmed)
       THEN QueryAnalysis(query, TRUE, unwrapped[1], unwrapped[2],
                <<MetricInfo(trimmed, unwrapped[1], TRUE, unwrapped[2], 0,
                             Len(trimmed))>>,
                FALSE)
       ELSE QueryAnalysis(query, FALSE, <<>>, 0,
                <<MetricInfo(trimmed, trimmed, FALSE, 0, 0, Len(trimmed))>>, FALSE)

\* the branch of parseQuery for a simple single-metric query
parseSimple(query) ==
    LET trimmed == TrimSpace(query)
        unwrapped == extractInnerQuery(query)
    IN IF MatchesWrapperPrefix(trimmed)
       THEN QueryAnalysis(query, TRUE, unwrapped[1], unwrapped[2],
                <<MetricInfo(query, unwrapped[1], TRUE, unwrapped[2], 0, Len(query))>>,
                FALSE)
       ELSE QueryAnalysis(query, FALSE, <<>>, 0,
                <<MetricInfo(query, query, FALSE, 0, 0, Len(query))>>, FALSE)

\* parseQuery taking the complex branch for every query
parseQueryAlwaysComplex(query) == parseComplex(query)

parseQuery(query) ==
    IF isComplexQuery(query) THEN parseComplex(query) ELSE parseSimple(query)

(***************************************************************************)
(* extractQuery and fetchMetric                                            *)
(***************************************************************************)

\* extractQuery answering "" without error for a file that is no yaml
extractQueryLenient(f) ==
    IF ~f.readable THEN [query |-> <<>>, err |-> TRUE]
    ELSE IF ~f.decodes THEN [query |-> <<>>, err |-> FALSE]
    ELSE [query |-> f.query, err |-> FALSE]

\* extractQuery(filePath) = [query, err] for a file that can be read or not,
\* whose yaml decodes or not, and whose spec.query is query ("" when absent)
extractQuery(f) ==
    IF ~f.readable THEN [query |-> <<>>, err |-> TRUE]
    ELSE IF ~f.decodes THEN [query |-> <<>>, err |-> TRUE]
    ELSE [query |-> f.query, err |-> FALSE]

\* what fetchMetric returns: (*float64, error), or the panic of a nil
\* pointer dereference
Returned(value, err) == [value |-> value, err |-> err, panic |-> FALSE]
Panicked == [value |-> "nil", err |-> FALSE, panic |-> TRUE]

\* the loop over series.Pointlist from its last point down: the value of the
\* last point whose point[1] is not nil, or nil
LastNonNull(pointlist) ==
    LET set == {i \in 1..Len(pointlist) : pointlist[i] # "nil"}
    IN IF set = {} THEN "nil"
       ELSE pointlist[CHOOSE i \in set : \A k \in set : k <= i]

\* the case `metricResp.Status != nil && *metricResp.Status == "error"`:
\* *metricResp.Error is read to build the error
StatusError(resp) ==
    IF resp.error = "nil" THEN Panicked ELSE Returned("nil", TRUE)

\* fetchMetric on the response (metricResp, err) of api.QueryMetrics
fetchMetric(resp) ==
    IF resp.err THEN Returned("nil", TRUE)
    ELSE IF resp.status = "error" THEN StatusError(resp)
    ELSE IF Len(resp.series) > 0 /\ resp.series[1].end # "nil"
         THEN Returned(LastNonNull(resp.series[1].pointlist), FALSE)
    ELSE Returned("nil", FALSE)

(***************************************************************************)
(* The analysis calls as a state machine: a query is given, then one of    *)
(* the functions is applied to it and its result recorded.                 *)
(***************************************************************************)

VARIABLES
    terms,     \* the terms a composite query is built from, <<>> otherwise
    base,      \* the text the query is built from
    layers,    \* number of default_zero(...) calls wrapped around base
    query,     \* the query string handed to the function
    pc,        \* "input", or the name of the function that has returned
    analysis,  \* *QueryAnalysis returned by parseQuery
    inner,     \* (string, int) returned by extractInnerQuery
    complex,   \* bool returned by isComplexQuery
    metrics,   \* []MetricInfo returned by extractAllMetrics
    trimmed,   \* extractInnerQuery: the working text of its loop
    nesting,   \* extractInnerQuery: the layers counted so far
    response,  \* what api.QueryMetrics returned to fetchMetric
    fetched,   \* (*float64, error) returned by fetchMetric
    files,     \* main: flag.Args(), the files to process
    file,      \* main: the file of the current iteration
    fileIdx,   \* main: number of files the loop has taken
    failures,  \* main: the failures counter
    failuresBefore, \* main: failures when the current iteration began
    metricIdx, \* main: index into analysis.Metrics of the metric loop
    calls,     \* main: the fetchMetric calls of the current iteration
    exitStatus \* the status the process ended with, -1 while it runs

analysisVars == <<terms, base, layers, complex, metrics>>
peelVars == <<trimmed, nesting>>
fetchVars == <<response, fetched>>
driverVars ==
    <<files, file, fileIdx, failures, failuresBefore, metricIdx, calls,
      exitStatus>>

vars ==
    <<terms, base, layers, query, pc, analysis, inner, complex, metrics,
      trimmed, nesting, response, fetched,
      files, file, fileIdx, failures, failuresBefore, metricIdx, calls,
      exitStatus>>

\* bounds of the input space
MaxTokens == 3
MaxLayers == 2
MaxTerms == 3

\* fragments the input queries are concatenated from
Tokens ==
    { <<"d", "e", "f", "a", "u", "l", "t", "_", "z", "e", "r", "o", "(">>,
      <<"d", "e", "f", "a", "u", "l", "t", "_", "z", "e", "r", "o", "(",
        "a", "v", "g", ":", "a", ")">>,
      <<"a", "v", "g", ":", "a">>,
      <<"s", "u", "m", ":", "b", "{", "c", "-", "d", "}">>,
      <<")">>, <<"}">>, <<"+">>, <<" ">>, <<"\n">> }

RECURSIVE Flatten(_)
Flatten(ts) == IF ts = <<>> THEN <<>> ELSE Head(ts) \o Flatten(Tail(ts))

TokenSeqs == UNION {[1..n -> Tokens] : n \in 0..MaxTokens}

Queries == {Flatten(ts) : ts \in TokenSeqs}

\* e wrapped in k nested default_zero(...) calls
RECURSIVE Wrap(_, _)
Wrap(e, k) ==
    IF k = 0 THEN e ELSE DefaultZeroName \o <<"(">> \o Wrap(e, k - 1) \o <<")">>

\* zero values of the results
NoAnalysis == QueryAnalysis(<<>>, FALSE, <<>>, 0, <<>>, FALSE)
NoInner == <<<<>>, 0>>

\* the loop of extractInnerQuery, fetchMetric and main have not started
PeelIdle == trimmed = <<>> /\ nesting = 0

NoResponse == [err |-> FALSE, status |-> "nil", error |-> "nil", series |-> <<>>]
NoValue == Returned("nil", FALSE)

FetchIdle == response = NoResponse /\ fetched = NoValue

NoFile == [readable |-> FALSE, decodes |-> FALSE, query |-> <<>>]

DriverIdle ==
    /\ files = <<>>
    /\ file = NoFile
    /\ fileIdx = 0
    /\ failures = 0
    /\ failuresBefore = 0
    /\ metricIdx = 0
    /\ calls = <<>>
    /\ exitStatus = -1

Init ==
    /\ terms = <<>>
    /\ base \in Queries
    /\ layers \in 0..MaxLayers
    /\ query = Wrap(base, layers)
    /\ pc = "input"
    /\ analysis = NoAnalysis
    /\ inner = NoInner
    /\ complex = FALSE
    /\ metrics = <<>>
    /\ PeelIdle
    /\ FetchIdle
    /\ DriverIdle

\* bare metrics: aggregation prefix, dotted name, optional tag filter
BareMetrics ==
    { <<"a", "v", "g", ":", "a", ".", "b">>,
      <<"s", "u", "m", ":", "b", "{", "c", "-", "d", "}">> }

\* a term is a bare metric under depth nested default_zero calls
TermChoices == [metric : BareMetrics, depth : 0..MaxLayers]

TermText(t) == Wrap(t.metric, t.depth)

\* what joins two terms: an operator character, bare or between spaces
Joiners == { <<"-">>, <<" ", "/", " ">> }

RECURSIVE JoinTerms(_, _)
JoinTerms(ts, op) ==
    IF Len(ts) = 1 THEN TermText(ts[1])
    ELSE TermText(Head(ts)) \o op \o JoinTerms(Tail(ts), op)

\* the terms joined by op, the first two in parentheses when grouped
Composite(ts, op, grouped) ==
    IF ~grouped THEN JoinTerms(ts, op)
    ELSE <<"(">> \o JoinTerms(SubSeq(ts, 1, 2), op) \o <<")">>
         \o (IF Len(ts) > 2
             THEN op \o JoinTerms(SubSeq(ts, 3, Len(ts)), op)
             ELSE <<>>)

\* the inputs are composite queries of 2..MaxTerms terms
InitComposite ==
    /\ terms \in UNION {[1..n -> TermChoices] : n \in 2..MaxTerms}
    /\ query \in {Composite(terms, op, g) : op \in Joiners, g \in BOOLEAN}
    /\ base = query
    /\ layers = 0
    /\ pc = "input"
    /\ analysis = NoAnalysis
    /\ inner = NoInner
    /\ complex = FALSE
    /\ metrics = <<>>
    /\ PeelIdle
    /\ FetchIdle
    /\ DriverIdle

\* identifiers that start with the wrapper name and go on
LookalikeNames ==
    { <<"d", "e", "f", "a", "u", "l", "t", "_", "z", "e", "r", "o", "_", "x">>,
      <<"d", "e", "f", "a", "u", "l", "t", "_", "z", "e", "r", "o", "2">> }

\* what follows the opening parenthesis of a call of such an identifier
LookalikeTokens ==
    { <<"a", "v", "g", ":", "a">>, <<")">>, <<" ", "+", " ">>, <<" ">>,
      <<"d", "e", "f", "a", "u", "l", "t", "_", "z", "e", "r", "o", "(",
        "a", "v", "g", ":", "a", ")">> }

\* the inputs begin with a call of a longer identifier, alone or under
\* real default_zero calls
InitLookalike ==
    /\ terms = <<>>
    /\ base \in {name \o <<"(">> \o Flatten(ts) :
                    name \in LookalikeNames,
                    ts \in UNION {[1..n -> LookalikeTokens] : n \in 0..MaxTokens}}
    /\ layers \in 0..MaxLayers
    /\ query = Wrap(base, layers)
    /\ pc = "input"
    /\ analysis = NoAnalysis
    /\ inner = NoInner
    /\ complex = FALSE
    /\ metrics = <<>>
    /\ PeelIdle
    /\ FetchIdle
    /\ DriverIdle

ParseQuery ==
    /\ pc = "input"
    /\ analysis' = parseQuery(query)
    /\ pc' = "parseQuery"
    /\ UNCHANGED <<terms, base, layers, query, inner, complex, metrics>>
    /\ UNCHANGED <<peelVars, fetchVars, driverVars>>

ExtractInnerQuery ==
    /\ pc = "input"
    /\ inner' = extractInnerQuery(query)
    /\ pc' = "extractInnerQuery"
    /\ UNCHANGED <<terms, base, layers, query, analysis, complex, metrics>>
    /\ UNCHANGED <<peelVars, fetchVars, driverVars>>

IsComplexQuery ==
    /\ pc = "input"
    /\ complex' = isComplexQuery(query)
    /\ pc' = "isComplexQuery"
    /\ UNCHANGED <<terms, base, layers, query, analysis, inner, metrics>>
    /\ UNCHANGED <<peelVars, fetchVars, driverVars>>

ExtractAllMetrics ==
    /\ pc = "input"
    /\ metrics' = extractAllMetrics(query)
    /\ pc' = "extractAllMetrics"
    /\ UNCHANGED <<terms, base, layers, query, analysis, inner, complex>>
    /\ UNCHANGED <<peelVars, fetchVars, driverVars>>

Next ==
    \/ ParseQuery
    \/ ExtractInnerQuery
    \/ IsComplexQuery
    \/ ExtractAllMetrics

Spec == Init /\ [][Next]_vars

\* parseQuery and extractInnerQuery applied to the longer identifiers
NextLookalike ==
    \/ ParseQuery
    \/ ExtractInnerQuery

SpecLookalike == InitLookalike /\ [][NextLookalike]_vars

\* what stands before the wrapper name in a longer identifier that ends
\* with it
TailPrefixes == { <<"m", "y", "_">>, <<"x">>, <<"2">> }

\* what follows the opening parenthesis
TailTokens ==
    { <<"a", "v", "g", ":", "a">>, <<")">>, <<" ", "+", " ">>,
      <<"s", "u", "m", ":", "b">>,
      <<"d", "e", "f", "a", "u", "l", "t", "_", "z", "e", "r", "o", "(",
        "a", "v", "g", ":", "a", ")">> }

\* the inputs begin with a call of an identifier that ends with default_zero
InitTail ==
    /\ terms = <<>>
    /\ base \in {prefix \o DefaultZeroName \o <<"(">> \o Flatten(ts) :
                    prefix \in TailPrefixes,
                    ts \in UNION {[1..n -> TailTokens] : n \in 0..MaxTokens}}
    /\ layers = 0
    /\ query = base
    /\ pc = "input"
    /\ analysis = NoAnalysis
    /\ inner = NoInner
    /\ complex = FALSE
    /\ metrics = <<>>
    /\ PeelIdle
    /\ FetchIdle
    /\ DriverIdle

NextTail ==
    \/ ParseQuery
    \/ ExtractAllMetrics

\* parseQuery and extractAllMetrics applied to calls of such identifiers
SpecTail == InitTail /\ [][NextTail]_vars

\* parseQuery applied to composite queries
SpecComposite == InitComposite /\ [][ParseQuery]_vars

(***************************************************************************)
(* main: the loop over the files, one step per file read and per           *)
(* fetchMetric call                                                        *)
(***************************************************************************)

\* the exit status the parent process sees is the low byte of os.Exit's code
ExitStatusModulus == 256

\* the status of a process ended by a panic
PanicStatus == 2

MaxFiles == 2
MaxRunFiles == 256

\* the queries of the input files: a simple one, a simple one under two
\* layers, a composite one with a bare and a wrapped metric, and a composite
\* one in which no metric is found
SimpleQuery == <<"a", "v", "g", ":", "a">>
WrappedQuery == Wrap(SimpleQuery, 2)
MixedQuery ==
    <<"a", "v", "g", ":", "a", ".", "b", " ", "-", " ">>
        \o Wrap(<<"s", "u", "m", ":", "b", "{", "c", "-", "d", "}">>, 1)
BareQuery == <<"a", " ", "+", " ", "b">>

DriverQueries == {SimpleQuery, WrappedQuery, MixedQuery, BareQuery}

File(readable, decodes, q) ==
    [readable |-> readable, decodes |-> decodes, query |-> q]

\* a file that cannot be read, one that is no yaml, one without spec.query,
\* and one per query
DriverFiles ==
    {File(FALSE, FALSE, <<>>), File(TRUE, FALSE, <<>>), File(TRUE, TRUE, <<>>)}
        \cup {File(TRUE, TRUE, q) : q \in DriverQueries}

\* the last file of a long run: unreadable like those before it, or with
\* the wrapped query, or with the composite one
RunFiles ==
    {File(FALSE, FALSE, <<>>), File(TRUE, TRUE, WrappedQuery),
     File(TRUE, TRUE, MixedQuery)}

\* parseQuery of the queries of the input files
Analyses == [q \in DriverQueries |-> parseQuery(q)]

\* a series of the response
Series(end, pointlist) == [end |-> end, pointlist |-> pointlist]

Response(err, status, error, series) ==
    [err |-> err, status |-> status, error |-> error, series |-> series]

\* what the backend may answer to a call of the loop: a transport error, a
\* status "error" with and without its message, no series, a series of null
\* points, and a series with a value
DriverResponses ==
    { Response(TRUE, "nil", "nil", <<>>),
      Response(FALSE, "error", "msg", <<>>),
      Response(FALSE, "error", "nil", <<>>),
      Response(FALSE, "ok", "nil", <<>>),
      Response(FALSE, "ok", "nil", <<Series("t", <<"nil">>)>>),
      Response(FALSE, "ok", "nil", <<Series("t", <<"v1", "nil">>)>>) }

InitDriver ==
    /\ terms = <<>>
    /\ base = <<>>
    /\ layers = 0
    /\ query = <<>>
    /\ pc = "main"
    /\ analysis = NoAnalysis
    /\ inner = NoInner
    /\ complex = FALSE
    /\ metrics = <<>>
    /\ PeelIdle
    /\ FetchIdle
    /\ files \in UNION {[1..n -> DriverFiles] : n \in 0..MaxFiles}
    /\ file = NoFile
    /\ fileIdx = 0
    /\ failures = 0
    /\ failuresBefore = 0
    /\ metricIdx = 0
    /\ calls = <<>>
    /\ exitStatus = -1

\* a run over MaxRunFiles files, all unreadable but possibly the last one
InitRun ==
    /\ terms = <<>>
    /\ base = <<>>
    /\ layers = 0
    /\ query = <<>>
    /\ pc = "main"
    /\ analysis = NoAnalysis
    /\ inner = NoInner
    /\ complex = FALSE
    /\ metrics = <<>>
    /\ PeelIdle
    /\ FetchIdle
    /\ files \in {[i \in 1..MaxRunFiles |->
                       IF i < MaxRunFiles THEN File(FALSE, FALSE, <<>>) ELSE f] :
                   f \in RunFiles}
    /\ file = NoFile
    /\ fileIdx = 0
    /\ failures = 0
    /\ failuresBefore = 0
    /\ metricIdx = 0
    /\ calls = <<>>
    /\ exitStatus = -1

\* a fetchMetric call of the loop, as the log lines of main show it
Call(kind, q, result) == [kind |-> kind, query |-> q, result |-> result]

\* the test `err != nil` on what fetchMetric returned counting no data too
IsFailureOrNoData(result) == result.err \/ result.value = "nil"

\* the test `err != nil` on what fetchMetric returned
IsFailure(result) == result.err

\* where the loop goes after the call on the original query, going on to the
\* metrics even when the call failed
AfterQueryFailed(a, failed) ==
    IF a.IsComplexQuery
    THEN IF Len(a.Metrics) > 0 THEN "metrics" ELSE "main"
    ELSE IF a.HasDefaultZero THEN "inner" ELSE "main"

\* where the loop goes after the call on the original query: `continue` on
\* an error, else the branch `analysis.IsComplexQuery` or
\* `analysis.HasDefaultZero`
AfterQuery(a, failed) ==
    IF failed THEN "main"
    ELSE IF a.IsComplexQuery
    THEN IF Len(a.Metrics) > 0 THEN "metrics" ELSE "main"
    ELSE IF a.HasDefaultZero THEN "inner" ELSE "main"

\* the range over analysis.Metrics left at the first failed entry
AfterMetricBreak(a, i, failed) ==
    IF ~failed /\ i + 1 < Len(a.Metrics) THEN "metrics" ELSE "main"

\* where the loop goes after entry i of analysis.Metrics: `continue` on an
\* error takes the next entry like a success does
AfterMetric(a, i, failed) ==
    IF i + 1 < Len(a.Metrics) THEN "metrics" ELSE "main"

\* the loop takes the next file: extractQuery, the two early `continue`s,
\* then parseQuery
ReadFile ==
    /\ pc = "main"
    /\ fileIdx < Len(files)
    /\ LET f == files[fileIdx + 1]
           extracted == extractQuery(f)
       IN /\ file' = f
          /\ fileIdx' = fileIdx + 1
          /\ failuresBefore' = failures
          /\ calls' = <<>>
          /\ metricIdx' = 0
          /\ IF extracted.err
             THEN /\ failures' = failures + 1
                  /\ pc' = "main"
                  /\ query' = <<>>
                  /\ analysis' = NoAnalysis
             ELSE IF extracted.query = <<>>
             THEN /\ pc' = "main"
                  /\ query' = <<>>
                  /\ analysis' = NoAnalysis
                  /\ UNCHANGED failures
             ELSE /\ query' = extracted.query
                  /\ analysis' = Analyses[extracted.query]
                  /\ pc' = "query"
                  /\ UNCHANGED failures
    /\ UNCHANGED <<files, exitStatus, inner, analysisVars, peelVars, fetchVars>>

\* what follows a fetchMetric call that panicked: the process ends
Panic ==
    /\ pc' = "panicked"
    /\ exitStatus' = PanicStatus
    /\ UNCHANGED <<failures, metricIdx>>

\* fetchMetric on the original query, and where the loop goes from there
ValidateQuery ==
    /\ pc = "query"
    /\ \E resp \in DriverResponses :
           LET value == fetchMetric(resp)
           IN /\ calls' = Append(calls, Call("query", query, value))
              /\ IF value.panic THEN Panic
                 ELSE /\ failures' = IF IsFailure(value)
                                     THEN failures + 1 ELSE failures
                      /\ pc' = AfterQuery(analysis, IsFailure(value))
                      /\ UNCHANGED <<metricIdx, exitStatus>>
    /\ UNCHANGED <<files, file, fileIdx, failuresBefore, query, analysis, inner,
                   analysisVars, peelVars, fetchVars>>

\* one iteration of the loop over analysis.Metrics
ValidateMetric ==
    /\ pc = "metrics"
    /\ \E resp \in DriverResponses :
           LET metric == analysis.Metrics[metricIdx + 1]
               metricValue == fetchMetric(resp)
               kind == IF metric.HasDefaultZero THEN "wrapped" ELSE "bare"
           IN /\ calls' = Append(calls, Call(kind, metric.CleanMetric, metricValue))
              /\ IF metricValue.panic THEN Panic
                 ELSE /\ failures' = IF IsFailure(metricValue)
                                     THEN failures + 1 ELSE failures
                      /\ metricIdx' = metricIdx + 1
                      /\ pc' = AfterMetric(analysis, metricIdx,
                                           IsFailure(metricValue))
                      /\ UNCHANGED exitStatus
    /\ UNCHANGED <<files, file, fileIdx, failuresBefore, query, analysis, inner,
                   analysisVars, peelVars, fetchVars>>

\* fetchMetric on analysis.InnerQuery of a simple query with default_zero
ValidateInner ==
    /\ pc = "inner"
    /\ \E resp \in DriverResponses :
           LET innerValue == fetchMetric(resp)
           IN /\ calls' = Append(calls, Call("inner", analysis.InnerQuery, innerValue))
              /\ IF innerValue.panic THEN Panic
                 ELSE /\ failures' = IF IsFailure(innerValue)
                                     THEN failures + 1 ELSE failures
                      /\ pc' = "main"
                      /\ UNCHANGED <<metricIdx, exitStatus>>
    /\ UNCHANGED <<files, file, fileIdx, failuresBefore, query, analysis, inner,
                   analysisVars, peelVars, fetchVars>>

\* the loop is over: os.Exit(failures) when failures > 0, else main returns
Exit ==
    /\ pc = "main"
    /\ fileIdx = Len(files)
    /\ exitStatus' = IF failures > 0 THEN failures % ExitStatusModulus ELSE 0
    /\ pc' = "exited"
    /\ UNCHANGED <<files, file, fileIdx, failures, failuresBefore, metricIdx,
                   calls, query, analysis, inner, analysisVars, peelVars,
                   fetchVars>>

NextDriver ==
    \/ ReadFile
    \/ ValidateQuery
    \/ ValidateMetric
    \/ ValidateInner
    \/ Exit

SpecDriver == InitDriver /\ [][NextDriver]_vars

SpecRun == InitRun /\ [][NextDriver]_vars

(***************************************************************************)
(* extractInnerQuery step by step: one step per iteration of its loop      *)
(***************************************************************************)

\* the whole match, matches[0], taken for the inner content
WholeMatch(matches) == matches[1]

\* matches[1] of FindStringSubmatch: the text captured between the parentheses
Captured(matches) == matches[2]

\* extractInnerQuery has not been called yet
InitPeel ==
    /\ terms = <<>>
    /\ base = <<>>
    /\ layers = 0
    /\ query = <<>>
    /\ pc = "call"
    /\ analysis = NoAnalysis
    /\ inner = NoInner
    /\ complex = FALSE
    /\ metrics = <<>>
    /\ PeelIdle
    /\ FetchIdle
    /\ DriverIdle

\* the call on some query: trimmed := strings.TrimSpace(query); nesting := 0
EnterPeel ==
    /\ pc = "call"
    /\ \E b \in Queries, l \in 0..MaxLayers :
           /\ base' = b
           /\ layers' = l
           /\ query' = Wrap(b, l)
           /\ trimmed' = TrimSpace(Wrap(b, l))
    /\ nesting' = 0
    /\ pc' = "peel"
    /\ UNCHANGED <<terms, complex, metrics, analysis, inner, fetchVars,
                   driverVars>>

\* one iteration of the loop: break, return, or go round with the inner
\* text (matches and content are bound by \E to be computed once)
PeelStep ==
    /\ pc = "peel"
    /\ \E matches \in {InnerSubmatch(trimmed)} :
           IF Len(matches) # 2
           THEN /\ inner' = <<trimmed, nesting>>
                /\ pc' = "returned"
                /\ UNCHANGED peelVars
           ELSE \E content \in {TrimSpace(Captured(matches))} :
                    /\ nesting' = nesting + 1
                    /\ IF ~HasPrefix(content, DefaultZeroName)
                       THEN /\ inner' = <<content, nesting + 1>>
                            /\ pc' = "returned"
                            /\ UNCHANGED trimmed
                       ELSE /\ trimmed' = content
                            /\ UNCHANGED <<inner, pc>>
    /\ UNCHANGED <<query, analysis, analysisVars, fetchVars, driverVars>>

NextPeel ==
    \/ EnterPeel
    \/ PeelStep

\* a call that has started runs on: its next statement is executed
SpecPeel == InitPeel /\ [][NextPeel]_vars /\ WF_vars(NextPeel)

(***************************************************************************)
(* fetchMetric on the responses the client can hand back                   *)
(***************************************************************************)

MaxPoints == 2

\* point[1] of the points of a series: null or a value
PointValues == {"nil", "v1", "v2"}

Pointlists == UNION {[1..n -> PointValues] : n \in 0..MaxPoints}

AllSeries == {Series(end, pl) : end \in {"nil", "t"}, pl \in Pointlists}

\* metricResp.Series: none, one, or a first one followed by a second one
SeriesLists ==
    {<<>>} \cup {<<s>> : s \in AllSeries}
        \cup {<<s, t>> : s \in AllSeries,
                         t \in {Series("t", <<"v2">>), Series("nil", <<>>)}}

\* (metricResp, err) of api.QueryMetrics: Status and Error are pointers
Responses ==
    {Response(err, status, error, series) :
         err \in BOOLEAN, status \in {"nil", "ok", "error"},
         error \in {"nil", "msg"}, series \in SeriesLists}

InitFetch ==
    /\ terms = <<>>
    /\ base = <<>>
    /\ layers = 0
    /\ query = <<>>
    /\ pc = "input"
    /\ analysis = NoAnalysis
    /\ inner = NoInner
    /\ complex = FALSE
    /\ metrics = <<>>
    /\ PeelIdle
    /\ DriverIdle
    /\ response \in Responses
    /\ fetched = NoValue

FetchMetric ==
    /\ pc = "input"
    /\ fetched' = fetchMetric(response)
    /\ pc' = "fetchMetric"
    /\ UNCHANGED <<response, query, analysis, inner, analysisVars, peelVars,
                   driverVars>>

SpecFetch == InitFetch /\ [][FetchMetric]_vars

(***************************************************************************)
(* Properties                                                              *)
(***************************************************************************)

\* the half-open ranges of two MetricInfo values share no offset
Disjoint(m1, m2) == m1.EndPos <= m2.StartPos \/ m2.EndPos <= m1.StartPos

\* C1: any two distinct MetricInfo entries returned by extractAllMetrics have
\* non-overlapping ranges [StartPos, EndPos), whichever pass each comes from.
C1_NonOverlappingSpans ==
    pc = "extractAllMetrics" =>
        \A i, j \in 1..Len(metrics) : i # j => Disjoint(metrics[i], metrics[j])

\* C1 witness: a wrapped and a bare entry were returned, and a match of the
\* bare-metric pattern was left out because a wrapped span covers it.
C1_Witness ==
    /\ pc = "extractAllMetrics"
    /\ \E i, j \in 1..Len(metrics) :
           metrics[i].HasDefaultZero /\ ~metrics[j].HasDefaultZero
    /\ Len(MetricMatches(query))
           > Cardinality({j \in 1..Len(metrics) : ~metrics[j].HasDefaultZero})

\* s has a character of class
HasChar(s, class) == \E k \in 1..Len(s) : s[k] \in class

\* C2 as stated: for every k >= 0 and every base expression E that does not
\* begin with default_zero, extractInnerQuery of E wrapped in k nested
\* default_zero(...) calls returns exactly (E, k).
C2_WrapUnwrap ==
    (pc = "extractInnerQuery" /\ ~HasPrefix(base, DefaultZeroName)) =>
        inner = <<base, layers>>

\* the base expressions the round trip holds for: no white space at either
\* end and, under at least one layer, not empty and on one line
RoundTripBase(e, k) ==
    /\ ~HasPrefix(e, DefaultZeroName)
    /\ TrimSpace(e) = e
    /\ k >= 1 => (e # <<>> /\ ~HasChar(e, {"\n"}))

\* C2 amended: for every k >= 0 and every base expression E that does not
\* begin with default_zero, has no leading or trailing white space and, when
\* k >= 1, is not empty and contains no line break, extractInnerQuery of E
\* wrapped in k nested default_zero(...) calls returns exactly (E, k).
C2_WrapUnwrapTrimmed ==
    (pc = "extractInnerQuery" /\ RoundTripBase(base, layers)) =>
        inner = <<base, layers>>

\* C2 witness: two layers were peeled off a base that itself contains a
\* closing parenthesis and a space.
C2_Witness ==
    /\ pc = "extractInnerQuery"
    /\ RoundTripBase(base, layers)
    /\ layers = 2
    /\ HasChar(base, {")"})
    /\ HasChar(base, {" "})
    /\ inner = <<base, 2>>

\* the parentheses of s[1..n] that are still open, -1 once a ")" had no "("
RECURSIVE OpenParens(_, _)
OpenParens(s, n) ==
    LET parens == {k \in 1..n : s[k] \in {"(", ")"}}
        last == CHOOSE k \in parens : \A m \in parens : m <= k
        before == OpenParens(s, last - 1)
    IN IF parens = {} THEN 0
       ELSE IF before = -1 THEN -1
       ELSE IF s[last] = "(" THEN before + 1
       ELSE before - 1

\* every ")" of s closes an earlier "(" and every "(" is closed
Balanced(s) == OpenParens(s, Len(s)) = 0

\* C3: extractInnerQuery strips a default_zero layer only when that layer is
\* a complete call enclosing all the remaining text; in particular, when the
\* input has balanced parentheses the returned inner text has balanced
\* parentheses too.
C3_InnerStaysBalanced ==
    (pc = "extractInnerQuery" /\ Balanced(query)) => Balanced(inner[1])

\* what the claim expects of a term, and what a MetricInfo reports
Expected(t) ==
    [CleanMetric |-> t.metric, HasDefaultZero |-> t.depth >= 1,
     DefaultZeroNesting |-> t.depth]

Reported(m) ==
    [CleanMetric |-> m.CleanMetric, HasDefaultZero |-> m.HasDefaultZero,
     DefaultZeroNesting |-> m.DefaultZeroNesting]

\* every term has its own entry and every entry its own term
OnePerTerm(ts, ms) ==
    /\ Len(ms) = Len(ts)
    /\ \A e \in {Expected(ts[i]) : i \in 1..Len(ts)}
                \cup {Reported(ms[j]) : j \in 1..Len(ms)} :
           Cardinality({i \in 1..Len(ts) : Expected(ts[i]) = e})
               = Cardinality({j \in 1..Len(ms) : Reported(ms[j]) = e})

\* C4: for a composite query of n terms joined by arithmetic operators
\* (optionally grouped by parentheses), each a bare metric or that metric
\* under d >= 1 nested default_zero calls, parseQuery returns
\* IsComplexQuery = true and exactly n MetricInfo entries: one per wrapped
\* term with HasDefaultZero, DefaultZeroNesting = d and CleanMetric the bare
\* metric, one per bare term with no wrapper, nesting 0 and CleanMetric the term.
C4_OneMetricPerTerm ==
    (pc = "parseQuery" /\ terms # <<>>) =>
        /\ analysis.IsComplexQuery
        /\ OnePerTerm(terms, analysis.Metrics)

\* C4 witness: a grouped query of three terms, one bare, one under two
\* layers, was parsed into three entries.
C4_Witness ==
    /\ pc = "parseQuery"
    /\ Len(terms) = 3
    /\ query[1] = "("
    /\ \E i, j \in 1..3 : terms[i].depth = 0 /\ terms[j].depth = 2
    /\ Len(analysis.Metrics) = 3

\* an operator character stands at offset i with the brace counter at zero
OperatorAtDepthZero(q, i) ==
    q[i + 1] \in OperatorChars /\ inBracesAt(q, i) = 0

PrefixOccurrences(q) ==
    {<<i, k>> \in (0..Len(q)) \X (1..Len(metricPrefixes)) :
        HasPrefixAt(q, i, metricPrefixes[k])}

InFilterBlock(q, i) ==
    /\ \E o \in 1..i : q[o] = "{" /\ \A k \in (o + 1)..i : q[k] # "}"
    /\ \E c \in (i + 2)..Len(q) : q[c] = "}"

\* C6: isComplexQuery returns false for every query with exactly one
\* aggregation-prefix occurrence and no operator character outside {...}
\* tag-filter blocks, whatever wraps it and whatever operators are inside the
\* braces.
C6_SimpleQueryNotComplex ==
    (pc = "isComplexQuery"
        /\ Cardinality(PrefixOccurrences(query)) = 1
        /\ \A i \in 0..(Len(query) - 1) :
               query[i + 1] \in OperatorChars => InFilterBlock(query, i))
    => ~complex

\* C7: isComplexQuery returns true for every query in which the prefixes
\* avg:, sum:, count:, min:, max:, rate:, gauge: occur two or more times in
\* total, whatever the nesting and whether or not an operator is present.
C7_TwoPrefixesComplex ==
    (pc = "isComplexQuery" /\ Cardinality(PrefixOccurrences(query)) >= 2)
    => complex

\* C7 witness: two prefixes and no operator the scan accepts, under a layer.
C7_Witness ==
    /\ pc = "isComplexQuery"
    /\ layers >= 1
    /\ Cardinality(PrefixOccurrences(query)) = 2
    /\ ~OperatorScan(query)
    /\ complex

\* C8: for every query parseQuery classifies as not composite, Metrics has
\* exactly one element, with StartPos = 0, EndPos = len(query) and
\* OriginalMetric equal to the unmodified OriginalQuery.
C8_SimpleQuerySingleSpan ==
    (pc = "parseQuery" /\ ~analysis.IsComplexQuery) =>
        /\ analysis.OriginalQuery = query
        /\ Len(analysis.Metrics) = 1
        /\ analysis.Metrics[1].StartPos = 0
        /\ analysis.Metrics[1].EndPos = Len(query)
        /\ analysis.Metrics[1].OriginalMetric = analysis.OriginalQuery

\* C8 witness: a wrapped simple query with white space at its end.
C8_Witness ==
    /\ pc = "parseQuery"
    /\ ~analysis.IsComplexQuery
    /\ analysis.HasDefaultZero
    /\ query # TrimSpace(query)
    /\ Len(analysis.Metrics) = 1

\* C9 as stated: whenever Metrics is not empty the legacy fields come from
\* the first MetricInfo: HasDefaultZero, InnerQuery = Metrics[0].CleanMetric
\* and DefaultZeroNesting, for simple and composite queries alike.
C9_LegacyFromFirst ==
    (pc = "parseQuery" /\ Len(analysis.Metrics) > 0) =>
        /\ analysis.HasDefaultZero = analysis.Metrics[1].HasDefaultZero
        /\ analysis.InnerQuery = analysis.Metrics[1].CleanMetric
        /\ analysis.DefaultZeroNesting = analysis.Metrics[1].DefaultZeroNesting

\* C9 amended: whenever Metrics is not empty, HasDefaultZero and
\* DefaultZeroNesting equal those of Metrics[0]; InnerQuery equals
\* Metrics[0].CleanMetric when the query is composite or HasDefaultZero is
\* true, and is the empty string for a simple query without the wrapper
\* (whose Metrics[0].CleanMetric is the query itself).
C9_LegacyFromFirstButInner ==
    (pc = "parseQuery" /\ Len(analysis.Metrics) > 0) =>
        /\ analysis.HasDefaultZero = analysis.Metrics[1].HasDefaultZero
        /\ analysis.DefaultZeroNesting = analysis.Metrics[1].DefaultZeroNesting
        /\ analysis.InnerQuery =
               IF analysis.IsComplexQuery \/ analysis.HasDefaultZero
               THEN analysis.Metrics[1].CleanMetric
               ELSE <<>>
        /\ (~analysis.IsComplexQuery /\ ~analysis.HasDefaultZero) =>
               analysis.Metrics[1].CleanMetric = query

\* C9 witness: a composite query whose first MetricInfo is wrapped and whose
\* last one is bare.
C9_Witness ==
    /\ pc = "parseQuery"
    /\ analysis.IsComplexQuery
    /\ Len(analysis.Metrics) >= 2
    /\ analysis.Metrics[1].HasDefaultZero
    /\ ~analysis.Metrics[Len(analysis.Metrics)].HasDefaultZero
    /\ analysis.InnerQuery = analysis.Metrics[1].CleanMetric

\* C10: the Metrics sequence parseQuery returns is in order of appearance:
\* for every i < j, Metrics[i].StartPos < Metrics[j].StartPos, also when
\* wrapped and bare metrics are mixed.
C10_OrderOfAppearance ==
    pc = "parseQuery" =>
        \A i, j \in 1..Len(analysis.Metrics) :
            i < j => analysis.Metrics[i].StartPos < analysis.Metrics[j].StartPos

\* "(" minus ")" among the offsets a..(b - 1) of s
ParenDepth(s, a, b) ==
    Cardinality({k \in (a + 1)..b : s[k] = "("})
        - Cardinality({k \in (a + 1)..b : s[k] = ")"})

\* one past the ")" that closes the "(" at offset open, -1 when none does
MatchingClose(s, open) ==
    LET ends == {e \in (open + 1)..Len(s) : ParenDepth(s, open, e) = 0}
    IN IF ends = {} THEN -1 ELSE Least(ends)

\* the offsets at which a default_zero( token starts
WrapperOccurrences(q) == {j \in 0..(Len(q) - 1) : WrapperOpenEnd(q, j) # -1}

\* where the call opened by the token at offset j ends, -1 when it never does
OccurrenceClose(q, j) == MatchingClose(q, WrapperOpenEnd(q, j) - 1)

\* C11: a default_zero( occurrence with no matching closing parenthesis is
\* treated as "no wrapper present": parseQuery produces no MetricInfo with
\* HasDefaultZero for it and does not set the analysis-level HasDefaultZero
\* because of it, on the simple and on the composite path.
C11_UnclosedWrapperIgnored ==
    pc = "parseQuery" =>
        /\ \A j \in WrapperOccurrences(query) :
               OccurrenceClose(query, j) = -1 =>
                   ~\E k \in 1..Len(analysis.Metrics) :
                       /\ analysis.Metrics[k].HasDefaultZero
                       /\ analysis.Metrics[k].StartPos = j
        /\ (\A j \in WrapperOccurrences(query) : OccurrenceClose(query, j) = -1)
               => ~analysis.HasDefaultZero

\* C12: in every MetricInfo parseQuery produces, HasDefaultZero is true if
\* and only if DefaultZeroNesting >= 1, and DefaultZeroNesting is never
\* negative; the same holds for the analysis-level fields.
C12_WrapperIffNested ==
    pc = "parseQuery" =>
        /\ \A k \in 1..Len(analysis.Metrics) :
               /\ analysis.Metrics[k].DefaultZeroNesting >= 0
               /\ analysis.Metrics[k].HasDefaultZero
                      <=> analysis.Metrics[k].DefaultZeroNesting >= 1
        /\ analysis.DefaultZeroNesting >= 0
        /\ analysis.HasDefaultZero <=> analysis.DefaultZeroNesting >= 1

\* C13 as stated: for every string that does not match the anchored
\* default_zero(...) pattern, extractInnerQuery returns the string it was
\* given, unchanged, and depth 0; applied to its own returned text it returns
\* that text and 0.
C13_UnwrappedUnchanged ==
    (pc = "extractInnerQuery" /\ InnerSubmatch(query) = <<>>) =>
        /\ inner = <<query, 0>>
        /\ extractInnerQuery(inner[1]) = <<inner[1], 0>>

\* C13 amended: for every string that, with its leading and trailing white
\* space removed, does not match the anchored default_zero(...) pattern,
\* extractInnerQuery returns that trimmed string and depth 0; applied to its
\* own returned text it returns that text and 0.
C13_UnwrappedTrimmed ==
    (pc = "extractInnerQuery" /\ InnerSubmatch(TrimSpace(query)) = <<>>) =>
        /\ inner = <<TrimSpace(query), 0>>
        /\ extractInnerQuery(inner[1]) = <<inner[1], 0>>

\* C13 witness: a query with white space around it that starts with the
\* wrapper name without being a complete call came back trimmed, depth 0.
C13_Witness ==
    /\ pc = "extractInnerQuery"
    /\ query # TrimSpace(query)
    /\ HasPrefix(TrimSpace(query), DefaultZeroName)
    /\ InnerSubmatch(TrimSpace(query)) = <<>>
    /\ inner = <<TrimSpace(query), 0>>

\* default_zero( E ) and default_zero (E)
SpacedInside(e) == DefaultZeroName \o <<"(", " ">> \o e \o <<" ", ")">>
SpacedName(e) == DefaultZeroName \o <<" ", "(">> \o e \o <<")">>

\* C14: for every expression E, extractInnerQuery returns the same inner text
\* and the same depth for default_zero(E), default_zero( E ) and
\* default_zero (E).
C14_WhitespaceTolerance ==
    (pc = "extractInnerQuery" /\ layers = 1) =>
        /\ inner = extractInnerQuery(SpacedInside(base))
        /\ inner = extractInnerQuery(SpacedName(base))

\* C15 as stated: a query that begins with the wrapper name as the prefix of
\* a longer identifier is not treated as wrapped: parseQuery returns
\* HasDefaultZero = false, DefaultZeroNesting = 0 and an empty InnerQuery,
\* and extractInnerQuery counts no layer for it, also when it is the argument
\* of real default_zero calls.
C15_LookalikeNotWrapped ==
    /\ (pc = "parseQuery" /\ layers = 0) =>
           /\ ~analysis.HasDefaultZero
           /\ analysis.DefaultZeroNesting = 0
           /\ analysis.InnerQuery = <<>>
    /\ pc = "extractInnerQuery" => inner = <<TrimSpace(base), layers>>

\* C15 amended: a query that parseQuery classifies as not composite and that
\* begins with the wrapper name as the prefix of a longer identifier is not
\* treated as wrapped (HasDefaultZero = false, DefaultZeroNesting = 0, empty
\* InnerQuery); extractInnerQuery returns such a text trimmed with depth 0,
\* and with depth k when it is, on one line, the argument of k nested real
\* default_zero calls.
C15_SimpleLookalikeNotWrapped ==
    /\ (pc = "parseQuery" /\ layers = 0 /\ ~analysis.IsComplexQuery) =>
           /\ ~analysis.HasDefaultZero
           /\ analysis.DefaultZeroNesting = 0
           /\ analysis.InnerQuery = <<>>
    /\ pc = "extractInnerQuery" => inner = <<TrimSpace(base), layers>>

\* C15 witness: a complete call of a longer identifier around one metric was
\* parsed as a simple query without wrapper.
C15_Witness ==
    /\ pc = "parseQuery"
    /\ layers = 0
    /\ \E name \in LookalikeNames : HasPrefix(query, name \o <<"(">>)
    /\ query[Len(query)] = ")"
    /\ metricCount(query) = 1
    /\ ~analysis.IsComplexQuery
    /\ ~analysis.HasDefaultZero
    /\ Len(analysis.Metrics) = 1

\* C16: for every query that contains none of the aggregation prefixes,
\* parseQuery returns IsComplexQuery = false and exactly one MetricInfo whose
\* CleanMetric equals the raw input string.
C16_NoPrefixIsSimple ==
    (pc = "parseQuery" /\ PrefixOccurrences(query) = {}) =>
        /\ ~analysis.IsComplexQuery
        /\ Len(analysis.Metrics) = 1
        /\ analysis.Metrics[1].CleanMetric = query

\* C17: for the empty string and for every whitespace-only string, parseQuery
\* returns IsComplexQuery = false and exactly one MetricInfo with
\* HasDefaultZero = false and DefaultZeroNesting = 0.
C17_BlankIsSimple ==
    (pc = "parseQuery" /\ \A k \in 1..Len(query) : query[k] \in SpaceChars) =>
        /\ ~analysis.IsComplexQuery
        /\ Len(analysis.Metrics) = 1
        /\ ~analysis.Metrics[1].HasDefaultZero
        /\ analysis.Metrics[1].DefaultZeroNesting = 0

\* C17 witness: a query of a space and a line break was parsed.
C17_Witness ==
    /\ pc = "parseQuery"
    /\ Len(query) >= 2
    /\ \A k \in 1..Len(query) : query[k] \in SpaceChars
    /\ HasChar(query, {" "})
    /\ HasChar(query, {"\n"})
    /\ Len(analysis.Metrics) = 1

\* the occurrence at offset j has a matching closing parenthesis and does not
\* start inside the span of an earlier occurrence that was matched
RECURSIVE Emitting(_, _)
Emitting(q, j) ==
    /\ OccurrenceClose(q, j) # -1
    /\ ~\E i \in WrapperOccurrences(q) :
           i < j /\ j < OccurrenceClose(q, i) /\ Emitting(q, i)

\* the occurrence at offset j starts inside a previously matched span
InsideMatched(q, j) ==
    \E i \in WrapperOccurrences(q) :
        i < j /\ j < OccurrenceClose(q, i) /\ Emitting(q, i)

\* the wrapped entries of ms that start at offset j
WrappedAt(ms, j) ==
    {k \in 1..Len(ms) : ms[k].HasDefaultZero /\ ms[k].StartPos = j}

\* C18: every occurrence of the default_zero( token that has a matching
\* closing parenthesis and does not start inside a previously matched wrapped
\* span yields exactly one MetricInfo, from the start of the token to one past
\* the parenthesis at which the depth first returns to zero; an occurrence
\* that starts inside a previously matched span yields none.
C18_OneSpanPerOuterCall ==
    pc = "extractAllMetrics" =>
        \A j \in WrapperOccurrences(query) :
            /\ Emitting(query, j) =>
                   /\ Cardinality(WrappedAt(metrics, j)) = 1
                   /\ \A k \in WrappedAt(metrics, j) :
                          /\ metrics[k].EndPos = OccurrenceClose(query, j)
                          /\ metrics[k].OriginalMetric
                                 = Slice(query, j, OccurrenceClose(query, j))
            /\ InsideMatched(query, j) => WrappedAt(metrics, j) = {}

\* C18 witness: a call that closes before the end of the query was matched,
\* and a complete call nested in it was skipped.
C18_Witness ==
    /\ pc = "extractAllMetrics"
    /\ \E i, j \in WrapperOccurrences(query) :
           /\ Emitting(query, i)
           /\ OccurrenceClose(query, i) < Len(query)
           /\ i < j /\ j < OccurrenceClose(query, i)
           /\ OccurrenceClose(query, j) # -1
           /\ Cardinality(WrappedAt(metrics, i)) = 1
           /\ WrappedAt(metrics, j) = {}

\* the offsets inside the spans of the wrapped entries of ms
WrappedOffsets(ms) ==
    UNION {ms[k].StartPos..(ms[k].EndPos - 1) :
           k \in {n \in 1..Len(ms) : ms[n].HasDefaultZero}}

\* the bare entries of ms with the range [a, b)
BareAt(ms, a, b) ==
    {k \in 1..Len(ms) :
        ~ms[k].HasDefaultZero /\ ms[k].StartPos = a /\ ms[k].EndPos = b}

\* C19: a match of the bare-metric pattern is emitted if and only if no byte
\* of its range lies inside a span produced by the wrapped pass; every emitted
\* entry has HasDefaultZero = false, DefaultZeroNesting = 0 and CleanMetric
\* equal to OriginalMetric.
C19_BareIffUncovered ==
    pc = "extractAllMetrics" =>
        LET matches == MetricMatches(query)
        IN /\ \A i \in 1..Len(matches) :
                  ((matches[i][1]..(matches[i][2] - 1))
                       \cap WrappedOffsets(metrics) = {})
                  <=> Cardinality(BareAt(metrics, matches[i][1], matches[i][2])) = 1
           /\ \A k \in 1..Len(metrics) :
                  ~metrics[k].HasDefaultZero =>
                      /\ metrics[k].DefaultZeroNesting = 0
                      /\ metrics[k].CleanMetric = metrics[k].OriginalMetric
                      /\ metrics[k].OriginalMetric
                             = Slice(query, metrics[k].StartPos, metrics[k].EndPos)
                      /\ \E i \in 1..Len(matches) :
                             k \in BareAt(metrics, matches[i][1], matches[i][2])

\* C19 witness: one match was emitted, one that starts before a wrapped span
\* and runs into it was not, and neither was one inside the span.
C19_Witness ==
    /\ pc = "extractAllMetrics"
    /\ \E k \in 1..Len(metrics) : ~metrics[k].HasDefaultZero
    /\ LET matches == MetricMatches(query)
       IN /\ \E i \in 1..Len(matches) :
                 /\ matches[i][1] \notin WrappedOffsets(metrics)
                 /\ (matches[i][2] - 1) \in WrappedOffsets(metrics)
                 /\ BareAt(metrics, matches[i][1], matches[i][2]) = {}
          /\ \E i \in 1..Len(matches) :
                 /\ matches[i][1] \in WrappedOffsets(metrics)
                 /\ BareAt(metrics, matches[i][1], matches[i][2]) = {}

\* C20: in the sequence extractAllMetrics returns, every wrapped entry
\* precedes every bare entry, and within each of the two groups the entries
\* are in strictly increasing StartPos order.
C20_WrappedThenBare ==
    pc = "extractAllMetrics" =>
        \A i, j \in 1..Len(metrics) :
            i < j =>
                /\ ~(~metrics[i].HasDefaultZero /\ metrics[j].HasDefaultZero)
                /\ metrics[i].HasDefaultZero = metrics[j].HasDefaultZero
                       => metrics[i].StartPos < metrics[j].StartPos

\* C20 witness: two wrapped entries came before a bare entry that starts
\* before both of them in the query.
C20_Witness ==
    /\ pc = "extractAllMetrics"
    /\ Len(metrics) = 3
    /\ metrics[1].HasDefaultZero
    /\ metrics[2].HasDefaultZero
    /\ ~metrics[3].HasDefaultZero
    /\ metrics[3].StartPos < metrics[1].StartPos

\* C21: when main has processed all input files, the exit status equals the
\* failure count, for any number of failures; the exit status is zero if and
\* only if no failure was counted.
C21_ExitStatusIsFailureCount ==
    pc = "exited" =>
        /\ exitStatus = failures
        /\ exitStatus = 0 <=> failures = 0

\* the calls of the current file that validated the unwrapped query of a
\* default_zero-wrapped metric and were rejected, the original query having
\* been accepted
MaskedRejections ==
    IF calls = <<>> \/ calls[1].result.err \/ calls[1].result.panic THEN {}
    ELSE {i \in 2..Len(calls) :
              /\ calls[i].kind \in {"wrapped", "inner"}
              /\ calls[i].result.err}

\* C22: when a file's top-level query is accepted but the unwrapped query of a
\* default_zero-wrapped metric in it is rejected, the failure count is
\* incremented for that metric and the run ends with a non-zero exit status.
C22_MaskedFailureFailsRun ==
    MaskedRejections # {} =>
        /\ failures >= failuresBefore + Cardinality(MaskedRejections)
        /\ pc = "exited" => exitStatus # 0

\* the calls of the current file that returned an error
HardFailures == {i \in 1..Len(calls) : calls[i].result.err}

\* the calls of the current file that returned neither an error nor a value
NoDataCalls ==
    {i \in 1..Len(calls) :
         /\ ~calls[i].result.err
         /\ ~calls[i].result.panic
         /\ calls[i].result.value = "nil"}

\* the failures counted for the current file before any call: one when its
\* query could not be extracted
ExtractFailures == IF fileIdx > 0 /\ extractQuery(file).err THEN 1 ELSE 0

\* C23: a validation call that succeeds but returns no data points never
\* increments the failure count, be it for the top-level query, for an inner
\* query or for a per-metric query: the failures counted for a file are
\* those of its calls that returned an error.
C23_NoDataIsNoFailure ==
    failures = failuresBefore + ExtractFailures + Cardinality(HardFailures)

\* every kind of call has returned no data, and nothing was counted
C23_Witness ==
    /\ pc = "main"
    /\ failures = failuresBefore
    /\ \/ /\ Len(calls) = 3
          /\ NoDataCalls = 1..3
          /\ {calls[i].kind : i \in 1..3} = {"query", "bare", "wrapped"}
       \/ /\ Len(calls) = 2
          /\ NoDataCalls = 1..2
          /\ calls[2].kind = "inner"
    /\ fileIdx = 2
    /\ failures = 0
    /\ files[1].query = WrappedQuery
    /\ files[2].query = MixedQuery
    /\ Len(calls) = 3

\* the current file has a query that main goes on to validate
HasQuery == fileIdx > 0 /\ ~extractQuery(file).err /\ file.query # <<>>

\* C24: for every file with a non-empty query the original top-level query
\* is validated before any inner or per-metric query; when that call is a
\* hard failure the failure count rises by exactly one for the file and no
\* inner or per-metric call is made for it.
C24_TopLevelFirst ==
    /\ HasQuery /\ pc # "query" => calls # <<>>
    /\ calls # <<>> =>
           /\ calls[1].kind = "query"
           /\ calls[1].query = file.query
           /\ \A i \in 2..Len(calls) : calls[i].kind # "query"
           /\ calls[1].result.err =>
                  /\ Len(calls) = 1
                  /\ failures = failuresBefore + 1
                  /\ pc \in {"main", "exited"}

\* the top-level call of a wrapped query and that of a composite one failed
C24_Witness ==
    /\ fileIdx = 2
    /\ pc = "main"
    /\ files[1].query = WrappedQuery
    /\ files[2].query = MixedQuery
    /\ calls = <<Call("query", MixedQuery, Returned("nil", TRUE))>>
    /\ failures = 2

\* C25: for a composite query whose top-level validation succeeds, the
\* CleanMetric of every entry of analysis.Metrics is validated exactly once,
\* in sequence order, also after an entry failed; the failure count rises by
\* the number of entries whose validation is a hard failure.
C25_EveryMetricValidated ==
    (HasQuery /\ analysis.IsComplexQuery /\ calls # <<>>
         /\ ~calls[1].result.err /\ \A i \in 1..Len(calls) : ~calls[i].result.panic)
    =>  /\ Len(calls) = 1 + metricIdx
        /\ metricIdx <= Len(analysis.Metrics)
        /\ pc \in {"main", "exited"} => metricIdx = Len(analysis.Metrics)
        /\ \A i \in 1..metricIdx :
               /\ calls[i + 1].query = analysis.Metrics[i].CleanMetric
               /\ calls[i + 1].kind = IF analysis.Metrics[i].HasDefaultZero
                                       THEN "wrapped" ELSE "bare"
        /\ failures = failuresBefore + Cardinality(HardFailures)

\* both metrics of a composite query failed, the second being validated after
\* the failure of the first: the file has contributed two failures
C25_Witness ==
    /\ pc = "main"
    /\ file.query = MixedQuery
    /\ Len(analysis.Metrics) = 2
    /\ Len(calls) = 3
    /\ HardFailures = {2, 3}
    /\ failures = failuresBefore + 2

\* C26: a file whose query cannot be extracted (read or decode error) raises
\* the failure count by exactly one, with no analysis and no backend call; a
\* file that decodes to an empty query is skipped with no failure and no
\* backend call; in both cases the loop goes on with the next file.
C26_SkippedFiles ==
    (fileIdx > 0 /\ (~file.readable \/ ~file.decodes \/ file.query = <<>>))
    =>  /\ calls = <<>>
        /\ analysis = NoAnalysis
        /\ pc \in {"main", "exited"}
        /\ pc = "exited" => fileIdx = Len(files)
        /\ failures = failuresBefore
                       + (IF ~file.readable \/ ~file.decodes THEN 1 ELSE 0)

\* a file that is no yaml was counted, and the empty one after it was not
C26_Witness ==
    /\ fileIdx = 2
    /\ pc = "main"
    /\ files[1] = File(TRUE, FALSE, <<>>)
    /\ files[2] = File(TRUE, TRUE, <<>>)
    /\ failures = 1
    /\ failuresBefore = 1
    /\ calls = <<>>

\* C27: fetchMetric returns an error if and only if the call returned a
\* transport error or the response status is "error"; otherwise it returns
\* the last non-null point value of the first series when a series with an
\* end time is present, and no value and no error when there is no series,
\* the first series has no end time, or all its points are null.
C27_FetchClassification ==
    pc = "fetchMetric" =>
        /\ ~fetched.panic
        /\ fetched.err <=> (response.err \/ response.status = "error")
        /\ fetched.err => fetched.value = "nil"
        /\ ~fetched.err =>
               IF /\ Len(response.series) > 0
                  /\ response.series[1].end # "nil"
                  /\ \E i \in 1..Len(response.series[1].pointlist) :
                         response.series[1].pointlist[i] # "nil"
               THEN LET pl == response.series[1].pointlist
                    IN \E i \in 1..Len(pl) :
                           /\ pl[i] # "nil"
                           /\ \A k \in (i + 1)..Len(pl) : pl[k] = "nil"
                           /\ fetched.value = pl[i]
               ELSE fetched.value = "nil"

\* the loop has gone round: it is in its next iteration
GoesRound == pc = "peel" /\ pc' = "peel"

\* C28: the peeling loop of extractInnerQuery terminates for every input:
\* each iteration that does not return replaces the working text by a
\* strictly shorter one, so the iterations and the returned depth are
\* bounded by the length of the input, and the loop returns what
\* extractInnerQuery returns.
C28_PeelTerminates ==
    /\ [](pc = "peel" => nesting + Len(trimmed) <= Len(query))
    /\ [](pc = "returned" =>
              /\ inner[2] <= Len(query)
              /\ inner = extractInnerQuery(query))
    /\ [][GoesRound => Len(trimmed') < Len(trimmed)]_vars
    /\ <>(pc = "returned")

\* the loop has gone round twice and goes on with a non-empty text
C28_Witness ==
    /\ pc = "peel"
    /\ nesting = 2
    /\ Len(trimmed) > 0
    /\ HasPrefix(trimmed, DefaultZeroName)

\* the span of m lies in q and OriginalMetric is the text of q it delimits
SpanOf(q, m) ==
    /\ 0 <= m.StartPos
    /\ m.StartPos <= m.EndPos
    /\ m.EndPos <= Len(q)
    /\ m.OriginalMetric = Slice(q, m.StartPos, m.EndPos)

\* an entry as extractAllMetrics produces it: a non-empty span, and for a
\* wrapped entry a text that begins with default_zero and is balanced
ExtractedSpan(q, m) ==
    /\ SpanOf(q, m)
    /\ m.StartPos < m.EndPos
    /\ m.HasDefaultZero =>
           /\ HasPrefix(m.OriginalMetric, DefaultZeroName)
           /\ Balanced(m.OriginalMetric)

\* C29: every MetricInfo returned by parseQuery has
\* 0 <= StartPos <= EndPos <= len(query) and OriginalMetric =
\* query[StartPos:EndPos]; the entries produced by extractAllMetrics have a
\* non-empty range, and the wrapped ones among them an OriginalMetric that
\* begins with default_zero and has balanced parentheses.
C29_SpansDelimitOriginal ==
    /\ pc = "parseQuery" =>
           \A i \in 1..Len(analysis.Metrics) :
               /\ SpanOf(query, analysis.Metrics[i])
               /\ analysis.IsComplexQuery =>
                      ExtractedSpan(query, analysis.Metrics[i])
    /\ pc = "extractAllMetrics" =>
           \A i \in 1..Len(metrics) : ExtractedSpan(query, metrics[i])

\* a composite query with a wrapped entry that starts inside the query and
\* whose unwrapped text differs from its original text, and a bare entry
C29_Witness ==
    /\ pc = "parseQuery"
    /\ analysis.IsComplexQuery
    /\ \E i, j \in 1..Len(analysis.Metrics) :
           /\ analysis.Metrics[i].HasDefaultZero
           /\ analysis.Metrics[i].StartPos > 0
           /\ analysis.Metrics[i].EndPos < Len(query)
           /\ analysis.Metrics[i].CleanMetric # analysis.Metrics[i].OriginalMetric
           /\ ~analysis.Metrics[j].HasDefaultZero

\* the characters of an identifier
IdentifierChars == LowerChars \cup UpperChars \cup DigitChars \cup {"_"}

\* the entry m does not start in the middle of an identifier of q
AtNameBoundary(q, m) ==
    m.StartPos = 0 \/ q[m.StartPos] \notin IdentifierChars

\* C30: the wrapped pass recognises the wrapper token only at a name
\* boundary: an occurrence of default_zero( that is the tail of a longer
\* identifier produces no MetricInfo with HasDefaultZero = true.
C30_WrapperAtNameBoundary ==
    /\ pc = "extractAllMetrics" =>
           \A i \in 1..Len(metrics) :
               metrics[i].HasDefaultZero => AtNameBoundary(query, metrics[i])
    /\ (pc = "parseQuery" /\ analysis.IsComplexQuery) =>
           \A i \in 1..Len(analysis.Metrics) :
               analysis.Metrics[i].HasDefaultZero =>
                   AtNameBoundary(query, analysis.Metrics[i])

====
